---- MODULE Spec2Model ----
(***************************************************************************)
(* Model of the PyroAlert dashboard: the sensor-to-risk evaluation         *)
(* pipeline (unit converters, calculateRiskFromSensors, fetchAdafruitData) *)
(* and the Dashboard component's refresh cycle (updateDeviceData).         *)
(*                                                                         *)
(* Numbers.  JavaScript numbers are modelled in fixed point: every sensor  *)
(* value, raw or converted, is an integer number of HUNDREDTHS (33.01 is   *)
(* 3301).  riskPoints and riskPercent are plain integers.  The value NaN   *)
(* stands for every JavaScript value that is not a number (NaN itself,     *)
(* undefined, an unparsable string); comparisons with it are false, as in  *)
(* JavaScript.  Infinity stands for the JavaScript number Infinity and     *)
(* -Infinity for its negative; they compare above and below every other    *)
(* number.  Arithmetic is exact: binary floating-point error is not        *)
(* modelled.                                                               *)
(*                                                                         *)
(* Scope.  Spec follows one mounted Dashboard instance from its mount;     *)
(* SpecEval follows one call of calculateRiskFromSensors statement by      *)
(* statement, on readings at and around every threshold; SpecCalls follows *)
(* repeated calls of it and of the converters with Dashboard handlers in   *)
(* between; SpecConvert and SpecFetch follow one call of a unit converter  *)
(* and of the body of fetchAdafruitData; SpecAuth follows App from its     *)
(* mount: session check, login with or without 2FA, the auto-refresh       *)
(* timeout, profile and logout, every await a separate step.  Time is      *)
(* counted in units of 60 s.  Signup, the error text and totpCode are not  *)
(* modelled.                                                               *)
(***************************************************************************)
EXTENDS Integers, Sequences, FiniteSets, TLC

VARIABLES
    devices,        \* Dashboard state `devices` (array of device objects)
    isLoading,      \* Dashboard state `isLoading`
    lastUpdate,     \* Dashboard state `lastUpdate` (logical time of the last successful refresh)
    inflight,       \* invocations of updateDeviceData suspended at `await fetchAdafruitData()`
    started,        \* number of updateDeviceData invocations started so far
    now,            \* logical clock: number of handler steps taken
    effectRan,      \* the mount effect has run (first fetch issued, interval armed)
    lastRun,        \* what the most recently completed invocation did
    evalDevice,     \* calculateRiskFromSensors: its argument `device`
    evalPc,         \* calculateRiskFromSensors: position in the function body
    riskPoints,     \* calculateRiskFromSensors: local `riskPoints`
    evalResult,     \* calculateRiskFromSensors: returned { riskLevel, riskPercent }
    returned,       \* calculateRiskFromSensors: log of <<argument, result>> of the calls that returned
    callFn,         \* the converter or fetch body being called
    callArg,        \* its argument
    callRet,        \* its return value once it has returned
    route,          \* App state `route`
    user,           \* App state `user`
    isInitializing, \* App state `isInitializing`
    appIsLoading,   \* App state `isLoading`
    requires2FA,    \* App state `requires2FA`
    tempLoginData,  \* App state `tempLoginData`
    loginForm,      \* App state `loginForm`
    storage,        \* localStorage: the three pyroalert_* token entries (0: entry removed)
    clock,          \* Date.now(), in units of 60 s
    timer,          \* deadline of the auto-refresh setTimeout (0: none armed)
    issued,         \* number of tokens the token endpoint has issued
    sessionPc,      \* checkSession: position in the function body
    timerPc,        \* the setTimeout callback: position in its body
    loginPc,        \* submitLogin: position in the function body
    twoFAPc,        \* submit2FALogin: position in the function body
    logoutPc,       \* logout (clicked): position in the function body
    profilePc,      \* openProfile: position in the function body
    submitted,      \* credentials captured by the pending submitLogin / submit2FALogin
    refreshFor,     \* access tokens for which a refresh attempt has been started
    loggedOut       \* a logout has completed and no login has succeeded since

dashVars == <<devices, isLoading, lastUpdate, inflight, started, now, effectRan, lastRun>>
evalVars == <<evalDevice, evalPc, riskPoints, evalResult, returned>>
callVars == <<callFn, callArg, callRet>>
authVars == <<route, user, isInitializing, appIsLoading, requires2FA, tempLoginData,
              loginForm, storage, clock, timer, issued, sessionPc, timerPc, loginPc,
              twoFAPc, logoutPc, profilePc, submitted, refreshFor, loggedOut>>
vars == <<devices, isLoading, lastUpdate, inflight, started, now, effectRan, lastRun,
          evalDevice, evalPc, riskPoints, evalResult, returned,
          callFn, callArg, callRet,
          route, user, isInitializing, appIsLoading, requires2FA, tempLoginData,
          loginForm, storage, clock, timer, issued, sessionPc, timerPc, loginPc,
          twoFAPc, logoutPc, profilePc, submitted, refreshFor, loggedOut>>

----------------------------------------------------------------------------
(* Bounds of the model *)

MaxStarted == 3     \* updateDeviceData invocations per run
MaxInFlight == 2    \* invocations awaiting their fetch at the same time
MaxCalls == 2       \* calls of calculateRiskFromSensors in a run of SpecCalls
MaxHandlers == 3    \* Dashboard handlers run in between them
MaxRaw == 1000      \* largest raw sensor value handed to a converter (10.00)
MaxClock == 4       \* last instant of a run of SpecAuth
MaxTokens == 3      \* tokens issued in a run of SpecAuth

----------------------------------------------------------------------------
(* JavaScript number semantics *)

\* The not-a-number value; it lies outside every range of sensor values used.
NaN == -(10 * 1000 * 1000)

IsNum(x) == x # NaN

\* The number Infinity; it lies above every sensor value used, and
\* -Infinity below.
Infinity == 20 * 1000 * 1000

\* Number.isFinite
IsFinite(x) == IsNum(x) /\ x # Infinity /\ x # -Infinity

\* JavaScript relational operators: false whenever an operand is NaN.
Lt(a, b) == IsNum(a) /\ IsNum(b) /\ a < b
Le(a, b) == IsNum(a) /\ IsNum(b) /\ a <= b
Gt(a, b) == IsNum(a) /\ IsNum(b) /\ a > b
Ge(a, b) == IsNum(a) /\ IsNum(b) /\ a >= b

\* Truthiness of a numeric value: 0 and NaN are falsy.
Truthy(x) == IsNum(x) /\ x # 0

\* a || b
OrElse(a, b) == IF Truthy(a) THEN a ELSE b

\* parseFloat applied to a number, to the decimal text of one, or to a
\* value that is neither: a number (Infinity and -Infinity included)
\* survives the trip through its text, anything else is NaN.
parseFloat(x) == IF IsNum(x) THEN x ELSE NaN

\* parseFloat applied to the text toFixed(1) produced.  That text is coded
\* as its number of TENTHS ("12.9" is 129); the parsed number is in hundredths.
\* The texts "Infinity", "-Infinity" and "NaN" parse to those values.
parseFloatFixed1(s) == IF IsFinite(s) THEN 10 * s ELSE s

\* Math.round(num / den) for den > 0: the nearest integer, halves going up.
MathRound(num, den) == (2 * num + den) \div (2 * den)

\* (num / den).toFixed(1) for den > 0, with num / den in percent units: the
\* text of the nearest tenth, halves going away from zero (toFixed rounds the
\* magnitude and keeps the sign).  Coded as the number of tenths.
toFixed1(num, den) ==
    IF num >= 0 THEN (20 * num + den) \div (2 * den)
                ELSE -((20 * (-num) + den) \div (2 * den))

----------------------------------------------------------------------------
(* Unit converters *)

\* percent = (value / 4.8) * 100, clamped to [0, 100], as text with one decimal.
\* value is in hundredths, so percent = value / 100 / 4.8 * 100 = 10 * value / 48.
\* The smoke conversion without the clamp to [0, 100].
convertSmokeToPercentUnclamped(value) ==
    IF IsNum(value) THEN toFixed1(10 * value, 48) ELSE NaN

\* Math.max and Math.min give NaN for NaN; Infinity clamps like any number.
convertSmokeToPercent(value) ==
    LET num == 10 * value
        den == 48
        clamped == IF num > 100 * den THEN 100 * den ELSE IF num < 0 THEN 0 ELSE num
    IN  IF IsNum(value) THEN toFixed1(clamped, den) ELSE NaN

\* percent = -65.79 * value + 169.08, as text with one decimal, not clamped.
\* value is in hundredths: percent = (-6579 * value + 1690800) / 10000.
\* The soil conversion with its result clamped below at 0.
convertSoilHumidityToPercentClamped(value) ==
    IF IsFinite(value)
    THEN IF -6579 * value + 1690800 < 0 THEN 0
         ELSE toFixed1(-6579 * value + 1690800, 10000)
    ELSE IF IsNum(value) THEN -value
    ELSE NaN

\* A non-finite value gives the text "-Infinity", "Infinity" or "NaN".
convertSoilHumidityToPercent(value) ==
    IF IsFinite(value) THEN toFixed1(-6579 * value + 1690800, 10000)
    ELSE IF IsNum(value) THEN -value
    ELSE NaN

----------------------------------------------------------------------------
(* Risk evaluator: calculateRiskFromSensors *)

\* The temperature ladder with the first comparison made inclusive.
TemperaturePointsInclusive(temperature) ==
    IF Le(temperature, 2800) THEN 0
    ELSE IF Le(temperature, 3300) THEN 1
    ELSE IF Le(temperature, 3800) THEN 2
    ELSE 3

\* The temperature ladder with the third comparison made strict.
TemperaturePointsStrict(temperature) ==
    IF Lt(temperature, 2800) THEN 0
    ELSE IF Le(temperature, 3300) THEN 1
    ELSE IF Lt(temperature, 3800) THEN 2
    ELSE 3

\* Temperatura (0-3 pontos)
TemperaturePoints(temperature) ==
    IF Lt(temperature, 2800) THEN 0
    ELSE IF Le(temperature, 3300) THEN 1
    ELSE IF Le(temperature, 3800) THEN 2
    ELSE 3

\* The air-humidity ladder with the second comparison made strict.
AirHumidityPointsStrict(airHumidity) ==
    IF Gt(airHumidity, 4500) THEN 0
    ELSE IF Gt(airHumidity, 3000) THEN 1
    ELSE IF Ge(airHumidity, 2000) THEN 2
    ELSE 3

\* Umidade do Ar (0-3 pontos)
AirHumidityPoints(airHumidity) ==
    IF Gt(airHumidity, 4500) THEN 0
    ELSE IF Ge(airHumidity, 3000) THEN 1
    ELSE IF Ge(airHumidity, 2000) THEN 2
    ELSE 3

\* The soil-humidity ladder with the thresholds of the air-humidity ladder.
SoilHumidityPointsAirThresholds(soilHumidity) ==
    IF Gt(soilHumidity, 4500) THEN 0
    ELSE IF Ge(soilHumidity, 3000) THEN 1
    ELSE IF Ge(soilHumidity, 2000) THEN 2
    ELSE 3

\* Umidade do Solo (0-3 pontos)
SoilHumidityPoints(soilHumidity) ==
    IF Gt(soilHumidity, 3000) THEN 0
    ELSE IF Ge(soilHumidity, 2000) THEN 1
    ELSE IF Ge(soilHumidity, 1000) THEN 2
    ELSE 3

\* The smoke ladder with strict comparisons.
SmokePointsStrict(rawSmokePercent) ==
    LET smokePercent == OrElse(parseFloat(rawSmokePercent), 0)
    IN  IF Lt(smokePercent, 300) THEN 0
        ELSE IF Lt(smokePercent, 600) THEN 1
        ELSE IF Lt(smokePercent, 1000) THEN 2
        ELSE 3

\* Fumaca (0-3 pontos)
SmokePoints(rawSmokePercent) ==
    LET smokePercent == OrElse(parseFloat(rawSmokePercent), 0)
    IN  IF Le(smokePercent, 300) THEN 0
        ELSE IF Le(smokePercent, 600) THEN 1
        ELSE IF Le(smokePercent, 1000) THEN 2
        ELSE 3

\* The heat-index ladder with the last two comparisons made strict.
HeatIndexPointsStrict(heatIndex) ==
    IF Lt(heatIndex, 3000) THEN 0
    ELSE IF Lt(heatIndex, 3600) THEN 1
    ELSE IF Lt(heatIndex, 4000) THEN 2
    ELSE 3

\* The heat-index ladder with the first comparison made inclusive.
HeatIndexPointsInclusive(heatIndex) ==
    IF Le(heatIndex, 3000) THEN 0
    ELSE IF Le(heatIndex, 3600) THEN 1
    ELSE IF Le(heatIndex, 4000) THEN 2
    ELSE 3

\* Sensacao Termica (0-3 pontos)
HeatIndexPoints(heatIndex) ==
    IF Lt(heatIndex, 3000) THEN 0
    ELSE IF Le(heatIndex, 3600) THEN 1
    ELSE IF Le(heatIndex, 4000) THEN 2
    ELSE 3

\* The percentage taken over 12 points (four criteria) instead of 15.
RiskPercentOfFourCriteria(points) == MathRound(points * 100, 12)

\* The percentage truncated (Math.floor) instead of rounded.
RiskPercentOfFloor(points) == (points * 100) \div 15

\* riskPercent = Math.round((riskPoints / 15) * 100)
RiskPercentOf(points) == MathRound(points * 100, 15)

\* The level bands with the upper ends excluded.
RiskLevelOfExclusive(riskPercent) ==
    IF riskPercent < 25 THEN "low"
    ELSE IF riskPercent < 50 THEN "moderate"
    ELSE IF riskPercent < 75 THEN "high"
    ELSE "critical"

\* if (riskPercent <= 25) ... else if (<= 50) ... else if (<= 75) ... else
RiskLevelOf(riskPercent) ==
    IF riskPercent <= 25 THEN "low"
    ELSE IF riskPercent <= 50 THEN "moderate"
    ELSE IF riskPercent <= 75 THEN "high"
    ELSE "critical"

\* The whole function, as the Dashboard calls it.
calculateRiskFromSensors(device) ==
    LET points == TemperaturePoints(device.temperature)
                  + AirHumidityPoints(device.airHumidity)
                  + SoilHumidityPoints(device.soilHumidity)
                  + SmokePoints(device.smokePercent)
                  + HeatIndexPoints(device.heatIndex)
        riskPercent == RiskPercentOf(points)
    IN  [riskLevel |-> RiskLevelOf(riskPercent), riskPercent |-> riskPercent]

----------------------------------------------------------------------------
(* The sensor feed and fetchAdafruitData *)

\* What the five feed requests can answer: `last_value` of each feed, a
\* number in hundredths or NaN for a missing or unparsable value.
FumoValues == {NaN, 24, 600}
UmisoloValues == {220, 257}
Temp22Values == {0, 2500}
Umi22Values == {NaN, 3550}
Sense22Values == {0, 4100}

FeedResponses ==
    [fumo : FumoValues, umisolo : UmisoloValues, temp22 : Temp22Values,
     umi22 : Umi22Values, sense22 : Sense22Values]

\* The value fetchAdafruitData returns when a request fails.
Null == <<>>

\* The body of fetchAdafruitData once the five requests have answered.
\* feed "pyroalert.fumo" fills `smoke`, "umisolo" `soilHumidity`,
\* "temp22" `airHumidity`, "umi22" `temperature`, "sense22" `heatIndex`.
fetchAdafruitData(resp) ==
    LET smoke == OrElse(parseFloat(resp.fumo), 0)
        rawSoilHumidity == OrElse(parseFloat(resp.umisolo), 0)
        airHumidity == OrElse(parseFloat(resp.temp22), 0)
        temperature == OrElse(parseFloat(resp.umi22), 0)
        heatIndex == OrElse(parseFloat(resp.sense22), 0)
    IN  [rawValues |-> [smoke |-> smoke, soilHumidity |-> rawSoilHumidity,
                        airHumidity |-> airHumidity, temperature |-> temperature,
                        heatIndex |-> heatIndex, soilHumidityRaw |-> rawSoilHumidity],
         smoke |-> smoke,
         airHumidity |-> airHumidity,
         temperature |-> temperature,
         heatIndex |-> heatIndex,
         smokePercent |-> convertSmokeToPercent(OrElse(smoke, 0)),
         soilHumidity |-> parseFloatFixed1(convertSoilHumidityToPercent(rawSoilHumidity))]

----------------------------------------------------------------------------
(* Dashboard state *)

\* rawValues of a device that holds none ({} or absent).
NoRawValues == <<>>

\* The fields of the device objects that the refresh cycle reads or writes
\* (name, lat, lng, status and isRealData are constant and left out).
INITIAL_DEVICES == <<
    [id |-> "001", riskLevel |-> "moderate", riskPercent |-> 75,
     airHumidity |-> 1500, soilHumidity |-> 800, temperature |-> 3200,
     heatIndex |-> 3500, smokePercent |-> 950, rawValues |-> NoRawValues],
    [id |-> "002", riskLevel |-> "moderate", riskPercent |-> 40,
     airHumidity |-> 4500, soilHumidity |-> 2200, temperature |-> 2800,
     heatIndex |-> 3000, smokePercent |-> 380, rawValues |-> NoRawValues],
    [id |-> "003", riskLevel |-> "high", riskPercent |-> 85,
     airHumidity |-> 1000, soilHumidity |-> 500, temperature |-> 3800,
     heatIndex |-> 4200, smokePercent |-> 1290, rawValues |-> NoRawValues],
    [id |-> "004", riskLevel |-> "low", riskPercent |-> 25,
     airHumidity |-> 6500, soilHumidity |-> 4000, temperature |-> 2400,
     heatIndex |-> 2500, smokePercent |-> 250, rawValues |-> NoRawValues] >>

DeviceIds == {INITIAL_DEVICES[i].id : i \in DOMAIN INITIAL_DEVICES}

\* The record of an invocation that has not happened.
NoRun == [id |-> 0, ok |-> FALSE, evaluated |-> {}]

----------------------------------------------------------------------------
(* Dashboard.updateDeviceData *)

\* The map callback without the recomputation for the simulated devices.
UpdateDeviceRealOnly(device, adafruitData) ==
    IF device.id = "001"
    THEN LET updatedDevice ==
                 [device EXCEPT
                    !.temperature = OrElse(adafruitData.temperature, device.temperature),
                    !.airHumidity = OrElse(adafruitData.airHumidity, device.airHumidity),
                    !.soilHumidity = OrElse(adafruitData.soilHumidity, device.soilHumidity),
                    !.heatIndex = OrElse(adafruitData.heatIndex, device.heatIndex),
                    !.smokePercent = OrElse(parseFloatFixed1(adafruitData.smokePercent),
                                            device.smokePercent),
                    !.rawValues = adafruitData.rawValues]
             risk == calculateRiskFromSensors(updatedDevice)
         IN  [updatedDevice EXCEPT !.riskLevel = risk.riskLevel,
                                   !.riskPercent = risk.riskPercent]
    ELSE device

\* The function passed to prevDevices.map.
UpdateDevice(device, adafruitData) ==
    IF device.id = "001"
    THEN LET updatedDevice ==
                 [device EXCEPT
                    !.temperature = OrElse(adafruitData.temperature, device.temperature),
                    !.airHumidity = OrElse(adafruitData.airHumidity, device.airHumidity),
                    !.soilHumidity = OrElse(adafruitData.soilHumidity, device.soilHumidity),
                    !.heatIndex = OrElse(adafruitData.heatIndex, device.heatIndex),
                    !.smokePercent = OrElse(parseFloatFixed1(adafruitData.smokePercent),
                                            device.smokePercent),
                    !.rawValues = adafruitData.rawValues]
             risk == calculateRiskFromSensors(updatedDevice)
         IN  [updatedDevice EXCEPT !.riskLevel = risk.riskLevel,
                                   !.riskPercent = risk.riskPercent]
    ELSE LET risk == calculateRiskFromSensors(device)
         IN  [device EXCEPT !.riskLevel = risk.riskLevel,
                            !.riskPercent = risk.riskPercent]

\* The devices whose reading the map callback hands to calculateRiskFromSensors.
EvaluatedBy(prevDevices) == {prevDevices[i].id : i \in DOMAIN prevDevices}

\* The state updater given to setDevices.
SetDevicesUpdater(prevDevices, adafruitData) ==
    [i \in DOMAIN prevDevices |-> UpdateDevice(prevDevices[i], adafruitData)]

\* updateDeviceData up to `await fetchAdafruitData()`.
StartUpdate ==
    /\ started < MaxStarted
    /\ Cardinality(inflight) < MaxInFlight
    /\ started' = started + 1
    /\ inflight' = inflight \cup {started + 1}
    /\ isLoading' = TRUE
    /\ now' = now + 1
    /\ UNCHANGED <<devices, lastUpdate, lastRun>>

\* The effect run on mount: one call, then the 30 s interval is armed.
MountEffect ==
    /\ ~effectRan
    /\ effectRan' = TRUE
    /\ StartUpdate
    /\ UNCHANGED <<evalVars, callVars, authVars>>

\* A tick of setInterval(updateDeviceData, 30000).
IntervalTick ==
    /\ effectRan
    /\ StartUpdate
    /\ UNCHANGED <<effectRan, evalVars, callVars, authVars>>

\* A click on "Atualizar"; the button is disabled while isLoading.
ManualRefresh ==
    /\ effectRan
    /\ ~isLoading
    /\ StartUpdate
    /\ UNCHANGED <<effectRan, evalVars, callVars, authVars>>

\* updateDeviceData with setLastUpdate moved out of `if (adafruitData)`.
ResumeUpdateStampsFailure(id, adafruitData) ==
    /\ id \in inflight
    /\ inflight' = inflight \ {id}
    /\ now' = now + 1
    /\ IF adafruitData # Null
       THEN /\ devices' = SetDevicesUpdater(devices, adafruitData)
            /\ lastRun' = [id |-> id, ok |-> TRUE, evaluated |-> EvaluatedBy(devices)]
       ELSE /\ UNCHANGED devices
            /\ lastRun' = [id |-> id, ok |-> FALSE, evaluated |-> {}]
    /\ lastUpdate' = now + 1
    /\ isLoading' = FALSE
    /\ UNCHANGED <<started, effectRan>>

\* updateDeviceData from the point where fetchAdafruitData has settled with
\* adafruitData, through the finally block.
ResumeUpdate(id, adafruitData) ==
    /\ id \in inflight
    /\ inflight' = inflight \ {id}
    /\ now' = now + 1
    /\ IF adafruitData # Null
       THEN /\ devices' = SetDevicesUpdater(devices, adafruitData)
            /\ lastUpdate' = now + 1
            /\ lastRun' = [id |-> id, ok |-> TRUE, evaluated |-> EvaluatedBy(devices)]
       ELSE /\ UNCHANGED <<devices, lastUpdate>>
            /\ lastRun' = [id |-> id, ok |-> FALSE, evaluated |-> {}]
    /\ isLoading' = FALSE
    /\ UNCHANGED <<started, effectRan>>

\* The five requests answer and the invocation resumes with the data.
FetchSucceeds ==
    \E id \in inflight, resp \in FeedResponses :
        /\ ResumeUpdate(id, fetchAdafruitData(resp))
        /\ UNCHANGED <<evalVars, callVars, authVars>>

\* A request rejects or its JSON does not parse: fetchAdafruitData returns null.
FetchFails ==
    \E id \in inflight :
        /\ ResumeUpdate(id, Null)
        /\ UNCHANGED <<evalVars, callVars, authVars>>

\* A call of fetchAdafruitData whose five requests answered callArg.
CallFetchResolves ==
    /\ callFn = "fetchAdafruitData"
    /\ callArg # Null
    /\ callRet = <<>>
    /\ callRet' = <<fetchAdafruitData(callArg)>>
    /\ UNCHANGED <<callFn, callArg, dashVars, evalVars, authVars>>

\* A call of fetchAdafruitData in which a request failed: the catch block.
CallFetchRejects ==
    /\ callFn = "fetchAdafruitData"
    /\ callArg = Null
    /\ callRet = <<>>
    /\ callRet' = <<Null>>
    /\ UNCHANGED <<callFn, callArg, dashVars, evalVars, authVars>>

----------------------------------------------------------------------------
(* Dashboard.averages *)

\* devices.reduce(...): the five running sums over devs[1..n], starting
\* from zeros; the smoke term is parseFloat(d.smokePercent) || 0.
RECURSIVE SumDevices(_, _)
SumDevices(devs, n) ==
    IF n = 0
    THEN [temperature |-> 0, airHumidity |-> 0, soilHumidity |-> 0,
          heatIndex |-> 0, smokePercent |-> 0]
    ELSE LET acc == SumDevices(devs, n - 1)
             d == devs[n]
         IN  [temperature |-> acc.temperature + d.temperature,
              airHumidity |-> acc.airHumidity + d.airHumidity,
              soilHumidity |-> acc.soilHumidity + d.soilHumidity,
              heatIndex |-> acc.heatIndex + d.heatIndex,
              smokePercent |-> acc.smokePercent + OrElse(parseFloat(d.smokePercent), 0)]

\* The averages taken over the simulated devices only.
averagesSimulatedOnly(devs) ==
    LET sim == SelectSeq(devs, LAMBDA d : d.id # "001")
        sum == SumDevices(sim, Len(sim))
        count == Len(sim)
    IN  [temperature |-> toFixed1(sum.temperature, 100 * count),
         airHumidity |-> MathRound(sum.airHumidity, 100 * count),
         soilHumidity |-> MathRound(sum.soilHumidity, 100 * count),
         heatIndex |-> toFixed1(sum.heatIndex, 100 * count),
         smokePercent |-> toFixed1(sum.smokePercent, 100 * count)]

\* The useMemo over [devices].  The sums are in hundredths, so sum / count
\* is sum / (100 * count) units; toFixed(1) texts are in tenths, the
\* Math.round results in whole percent.
averages(devs) ==
    LET sum == SumDevices(devs, Len(devs))
        count == Len(devs)
    IN  [temperature |-> toFixed1(sum.temperature, 100 * count),
         airHumidity |-> MathRound(sum.airHumidity, 100 * count),
         soilHumidity |-> MathRound(sum.soilHumidity, 100 * count),
         heatIndex |-> toFixed1(sum.heatIndex, 100 * count),
         smokePercent |-> toFixed1(sum.smokePercent, 100 * count)]

----------------------------------------------------------------------------
(* calculateRiskFromSensors, statement by statement *)

EvalIdle ==
    /\ evalDevice = INITIAL_DEVICES[1]
    /\ evalPc = "idle"
    /\ riskPoints = 0
    /\ evalResult = Null
    /\ returned = <<>>

\* A further call whose riskPoints is an accumulator kept across calls.
EvalCallKeepsPoints(device) ==
    /\ evalPc = "done"
    /\ Len(returned) < MaxCalls
    /\ evalDevice' = device
    /\ evalPc' = "temperature"
    /\ evalResult' = Null
    /\ UNCHANGED <<riskPoints, returned, dashVars, callVars, authVars>>

\* A further call: the parameter is bound and `let riskPoints = 0` runs.
EvalCall(device) ==
    /\ evalPc = "done"
    /\ Len(returned) < MaxCalls
    /\ evalDevice' = device
    /\ evalPc' = "temperature"
    /\ riskPoints' = 0
    /\ evalResult' = Null
    /\ UNCHANGED <<returned, dashVars, callVars, authVars>>

EvalStep(from, to, points) ==
    /\ evalPc = from
    /\ evalPc' = to
    /\ riskPoints' = riskPoints + points
    /\ UNCHANGED <<evalDevice, evalResult, returned, dashVars, callVars, authVars>>

EvalTemperature == EvalStep("temperature", "airHumidity", TemperaturePoints(evalDevice.temperature))
EvalAirHumidity == EvalStep("airHumidity", "soilHumidity", AirHumidityPoints(evalDevice.airHumidity))
EvalSoilHumidity == EvalStep("soilHumidity", "smoke", SoilHumidityPoints(evalDevice.soilHumidity))
EvalSmoke == EvalStep("smoke", "heatIndex", SmokePoints(evalDevice.smokePercent))
EvalHeatIndex == EvalStep("heatIndex", "result", HeatIndexPoints(evalDevice.heatIndex))

\* The return with the assessment also stored on the argument.
EvalReturnWritesDevice ==
    /\ evalPc = "result"
    /\ evalPc' = "done"
    /\ evalResult' = [riskLevel |-> RiskLevelOf(RiskPercentOf(riskPoints)),
                      riskPercent |-> RiskPercentOf(riskPoints)]
    /\ evalDevice' = [evalDevice EXCEPT !.riskLevel = evalResult'.riskLevel,
                                        !.riskPercent = evalResult'.riskPercent]
    /\ returned' = Append(returned, <<evalDevice, evalResult'>>)
    /\ UNCHANGED <<riskPoints, dashVars, callVars, authVars>>

EvalReturn ==
    /\ evalPc = "result"
    /\ evalPc' = "done"
    /\ evalResult' = [riskLevel |-> RiskLevelOf(RiskPercentOf(riskPoints)),
                      riskPercent |-> RiskPercentOf(riskPoints)]
    /\ returned' = Append(returned, <<evalDevice, evalResult'>>)
    /\ UNCHANGED <<evalDevice, riskPoints, dashVars, callVars, authVars>>

----------------------------------------------------------------------------
(* One call of a converter or of the body of fetchAdafruitData *)

\* callRet is <<>> until the call returns and <<value>> afterwards.
CallIdle ==
    /\ callFn = "none"
    /\ callArg = 0
    /\ callRet = <<>>

\* No call of a converter is running.
NoCallPending == callFn = "none" \/ callRet # <<>>

\* A converter is called with a raw value.
CallConverter(fn, value) ==
    /\ NoCallPending
    /\ callFn' = fn
    /\ callArg' = value
    /\ callRet' = <<>>
    /\ UNCHANGED <<dashVars, evalVars, authVars>>

\* A call of convertSmokeToPercent(callArg) runs and returns.
CallConvertSmoke ==
    /\ callFn = "convertSmokeToPercent"
    /\ callRet = <<>>
    /\ callRet' = <<convertSmokeToPercent(callArg)>>
    /\ UNCHANGED <<callFn, callArg, dashVars, evalVars, authVars>>

\* A call of convertSoilHumidityToPercent(callArg) runs and returns.
CallConvertSoil ==
    /\ callFn = "convertSoilHumidityToPercent"
    /\ callRet = <<>>
    /\ callRet' = <<convertSoilHumidityToPercent(callArg)>>
    /\ UNCHANGED <<callFn, callArg, dashVars, evalVars, authVars>>

----------------------------------------------------------------------------
(* App: token storage, session check, login, logout *)

\* 60000 ms, the margin before expiry, in units of 60 s.
Margin == 1

\* `expires_in` of a token response, in units of 60 s.
ExpiresIn == 2

\* Date.now() when App mounts.
MountTime == 1

NoTimer == 0

\* localStorage after TokenStorage.clear(): the three entries removed.
NoTokens == [access_token |-> 0, refresh_token |-> 0, expiry |-> 0]

\* The n-th answer of the token endpoint that carries tokens.
TokenResponse(n) == [access_token |-> n, refresh_token |-> n, expires_in |-> ExpiresIn]

\* TokenStorage.save: the three entries after it has run.
TokenStorageSave(tokens) ==
    [access_token |-> tokens.access_token,
     refresh_token |-> tokens.refresh_token,
     expiry |-> clock + tokens.expires_in]

\* TokenStorage.isExpired (a removed expiry entry reads as 0).
TokenStorageIsExpired == clock > storage.expiry - Margin

EmptyForm == [email |-> "", password |-> ""]
Credentials == [email |-> "maria@example.com", password |-> "secret"]

\* What fetchUserData resolves to when /api/v1/auth/me answers with data.
UserData == [email |-> "maria@example.com", name |-> "Maria Silva"]

\* Outcomes of a request: the token endpoint, /auth/me, /oauth/revoke.
TokenOutcomes == {"ok", "denied", "failed"}

Max(a, b) == IF a > b THEN a ELSE b

\* The auto-refresh effect, run again when `route` has changed: the cleanup
\* clears the old timeout, and off the login screen a new one is armed for
\* 60 s before the stored expiry.
AutoRefreshEffect(newRoute, tokens) ==
    IF newRoute = route THEN timer
    ELSE IF newRoute = "login" THEN NoTimer
    ELSE Max(clock, tokens.expiry - Margin)

\* refreshAccessToken once its request has settled: the storage it leaves.
refreshAccessToken(outcome) ==
    IF outcome = "ok" THEN TokenStorageSave(TokenResponse(issued + 1))
    ELSE NoTokens

\* No handler of App is suspended at an await.
NoHandlerPending ==
    /\ timerPc = "idle"
    /\ loginPc = "idle"
    /\ twoFAPc = "idle"
    /\ logoutPc = "idle"
    /\ profilePc = "idle"

\* App as constructed, before its effects run; storage is what an earlier
\* page load left.
AppInit ==
    /\ route = "login"
    /\ user = Null
    /\ isInitializing = TRUE
    /\ appIsLoading = FALSE
    /\ requires2FA = FALSE
    /\ tempLoginData = Null
    /\ loginForm = EmptyForm
    /\ clock = MountTime
    /\ timer = NoTimer
    /\ issued = 1
    /\ sessionPc = "start"
    /\ NoHandlerPending
    /\ submitted = Null
    /\ refreshFor = {}
    /\ loggedOut = FALSE

\* App showing the Dashboard to a logged-in user.
AppOnDashboard ==
    /\ route = "dashboard"
    /\ user = UserData
    /\ isInitializing = FALSE
    /\ appIsLoading = FALSE
    /\ requires2FA = FALSE
    /\ tempLoginData = Null
    /\ loginForm = EmptyForm
    /\ storage = [access_token |-> 1, refresh_token |-> 1, expiry |-> MountTime + ExpiresIn]
    /\ clock = MountTime
    /\ timer = MountTime + ExpiresIn - Margin
    /\ issued = 1
    /\ sessionPc = "done"
    /\ NoHandlerPending
    /\ submitted = Null
    /\ refreshFor = {}
    /\ loggedOut = FALSE

appState == <<appIsLoading, requires2FA, tempLoginData, loginForm, submitted>>
handlerPcs == <<timerPc, loginPc, twoFAPc, logoutPc, profilePc>>
otherVars == <<dashVars, evalVars, callVars>>

\* checkSession up to its first await, or to its end when it has none.
CheckSessionStart ==
    /\ sessionPc = "start"
    /\ IF storage.access_token = 0
       THEN /\ isInitializing' = FALSE
            /\ sessionPc' = "done"
            /\ UNCHANGED refreshFor
       ELSE IF TokenStorageIsExpired
       THEN IF storage.refresh_token = 0
            THEN /\ isInitializing' = FALSE
                 /\ sessionPc' = "done"
                 /\ UNCHANGED refreshFor
            ELSE /\ sessionPc' = "refreshing"
                 /\ refreshFor' = refreshFor \cup {storage.access_token}
                 /\ UNCHANGED isInitializing
       ELSE /\ sessionPc' = "user"
            /\ UNCHANGED <<isInitializing, refreshFor>>
    /\ UNCHANGED <<route, user, storage, clock, timer, issued, loggedOut,
                   appState, handlerPcs, otherVars>>

\* checkSession: its refreshAccessToken call has settled.
CheckSessionRefreshed(outcome) ==
    /\ sessionPc = "refreshing"
    /\ outcome = "ok" => issued < MaxTokens
    /\ storage' = refreshAccessToken(outcome)
    /\ IF outcome = "ok"
       THEN /\ issued' = issued + 1
            /\ sessionPc' = "user"
            /\ UNCHANGED isInitializing
       ELSE /\ isInitializing' = FALSE
            /\ sessionPc' = "done"
            /\ UNCHANGED issued
    /\ UNCHANGED <<route, user, clock, timer, refreshFor, loggedOut,
                   appState, handlerPcs, otherVars>>

\* checkSession entering the dashboard whatever fetchUserData returned.
CheckSessionUserAlwaysEnters(userData) ==
    /\ sessionPc = "user"
    /\ user' = userData
    /\ route' = "dashboard"
    /\ timer' = AutoRefreshEffect(route', storage)
    /\ isInitializing' = FALSE
    /\ sessionPc' = "done"
    /\ UNCHANGED <<storage, clock, issued, refreshFor, loggedOut, appState, handlerPcs,
                   otherVars>>

\* checkSession: fetchUserData has settled with userData (Null: no data).
CheckSessionUser(userData) ==
    /\ sessionPc = "user"
    /\ IF userData # Null
       THEN /\ user' = userData
            /\ route' = "dashboard"
            /\ UNCHANGED storage
       ELSE /\ storage' = NoTokens
            /\ UNCHANGED <<user, route>>
    /\ timer' = AutoRefreshEffect(route', storage')
    /\ isInitializing' = FALSE
    /\ sessionPc' = "done"
    /\ UNCHANGED <<clock, issued, refreshFor, loggedOut, appState, handlerPcs, otherVars>>

\* The statements of logout after its revoke request: storage cleared,
\* route login, form emptied, user null.
LogoutCompletes ==
    /\ storage' = NoTokens
    /\ route' = "login"
    /\ loginForm' = EmptyForm
    /\ user' = Null
    /\ timer' = AutoRefreshEffect("login", NoTokens)
    /\ loggedOut' = TRUE

\* The auto-refresh timeout fires: its callback runs up to the await in
\* refreshAccessToken, or, with no refresh token stored, on into logout.
TimerFires ==
    /\ timer # NoTimer
    /\ clock >= timer
    /\ timerPc = "idle"
    /\ IF storage.refresh_token = 0
       THEN /\ LogoutCompletes
            /\ UNCHANGED <<timerPc, refreshFor>>
       ELSE /\ timerPc' = "refreshing"
            /\ refreshFor' = refreshFor \cup {storage.access_token}
            /\ timer' = NoTimer
            /\ UNCHANGED <<storage, route, loginForm, user, loggedOut>>
    /\ UNCHANGED <<isInitializing, appIsLoading, requires2FA, tempLoginData, submitted,
                   clock, issued, sessionPc, loginPc, twoFAPc, logoutPc, profilePc,
                   otherVars>>

\* The callback's refreshAccessToken call has settled; when it returned
\* false the callback calls logout, which finds no access token to revoke.
TimerRefreshed(outcome) ==
    /\ timerPc = "refreshing"
    /\ outcome = "ok" => issued < MaxTokens
    /\ timerPc' = "idle"
    /\ IF outcome = "ok"
       THEN /\ storage' = refreshAccessToken(outcome)
            /\ issued' = issued + 1
            /\ UNCHANGED <<route, loginForm, user, timer, loggedOut>>
       ELSE /\ LogoutCompletes
            /\ UNCHANGED issued
    /\ UNCHANGED <<isInitializing, appIsLoading, requires2FA, tempLoginData, submitted,
                   clock, sessionPc, loginPc, twoFAPc, logoutPc, profilePc, refreshFor,
                   otherVars>>

\* A click on "Sair": logout up to the await of the revoke request, or to
\* its end when no access token is stored.
Logout ==
    /\ route \in {"dashboard", "profile"}
    /\ logoutPc = "idle"
    /\ IF storage.access_token # 0
       THEN /\ logoutPc' = "revoking"
            /\ UNCHANGED <<storage, route, loginForm, user, timer, loggedOut>>
       ELSE /\ LogoutCompletes
            /\ UNCHANGED logoutPc
    /\ UNCHANGED <<isInitializing, appIsLoading, requires2FA, tempLoginData, submitted,
                   clock, issued, sessionPc, timerPc, loginPc, twoFAPc, profilePc,
                   refreshFor, otherVars>>

\* logout without the try/catch around the revoke request: a request that
\* fails ends logout there.
LogoutRevokedOrAborts(outcome) ==
    /\ logoutPc = "revoking"
    /\ outcome \in TokenOutcomes
    /\ logoutPc' = "idle"
    /\ IF outcome = "failed"
       THEN UNCHANGED <<storage, route, loginForm, user, timer, loggedOut>>
       ELSE LogoutCompletes
    /\ UNCHANGED <<isInitializing, appIsLoading, requires2FA, tempLoginData, submitted,
                   clock, issued, sessionPc, timerPc, loginPc, twoFAPc, profilePc,
                   refreshFor, otherVars>>

\* The revoke request has settled, in whatever way.
LogoutRevoked(outcome) ==
    /\ logoutPc = "revoking"
    /\ outcome \in TokenOutcomes
    /\ logoutPc' = "idle"
    /\ LogoutCompletes
    /\ UNCHANGED <<isInitializing, appIsLoading, requires2FA, tempLoginData, submitted,
                   clock, issued, sessionPc, timerPc, loginPc, twoFAPc, profilePc,
                   refreshFor, otherVars>>

\* The user fills in the login form.
HandleLoginChange ==
    /\ route = "login"
    /\ ~isInitializing
    /\ ~requires2FA
    /\ ~appIsLoading
    /\ loginForm = EmptyForm
    /\ loginForm' = Credentials
    /\ UNCHANGED <<route, user, isInitializing, appIsLoading, requires2FA, tempLoginData,
                   storage, clock, timer, issued, sessionPc, handlerPcs, submitted,
                   refreshFor, loggedOut, otherVars>>

\* submitLogin up to the await of the token request.
SubmitLogin ==
    /\ route = "login"
    /\ ~isInitializing
    /\ ~requires2FA
    /\ ~appIsLoading
    /\ loginForm = Credentials
    /\ loginPc = "idle"
    /\ appIsLoading' = TRUE
    /\ loginPc' = "token"
    /\ submitted' = loginForm
    /\ UNCHANGED <<route, user, isInitializing, requires2FA, tempLoginData, loginForm,
                   storage, clock, timer, issued, sessionPc, timerPc, twoFAPc, logoutPc,
                   profilePc, refreshFor, loggedOut, otherVars>>

\* submitLogin: the token endpoint has answered ("2fa": requires_2fa,
\* mfa_required or status 403).
LoginAnswered(outcome) ==
    /\ loginPc = "token"
    /\ outcome = "ok" => issued < MaxTokens
    /\ IF outcome = "2fa"
       THEN /\ requires2FA' = TRUE
            /\ tempLoginData' = submitted
            /\ appIsLoading' = FALSE
            /\ loginPc' = "idle"
            /\ submitted' = Null
            /\ UNCHANGED <<storage, issued, loggedOut>>
       ELSE IF outcome = "ok"
       THEN /\ storage' = TokenStorageSave(TokenResponse(issued + 1))
            /\ issued' = issued + 1
            /\ loggedOut' = FALSE
            /\ loginPc' = "user"
            /\ UNCHANGED <<requires2FA, tempLoginData, appIsLoading, submitted>>
       ELSE /\ appIsLoading' = FALSE
            /\ loginPc' = "idle"
            /\ submitted' = Null
            /\ UNCHANGED <<requires2FA, tempLoginData, storage, issued, loggedOut>>
    /\ UNCHANGED <<route, user, isInitializing, loginForm, clock, timer, sessionPc,
                   timerPc, twoFAPc, logoutPc, profilePc, refreshFor, otherVars>>

\* submitLogin: fetchUserData has settled with userData (Null: no data).
LoginUser(userData) ==
    /\ loginPc = "user"
    /\ user' = IF userData # Null THEN userData
               ELSE [email |-> submitted.email, name |-> submitted.email]
    /\ route' = "dashboard"
    /\ timer' = AutoRefreshEffect("dashboard", storage)
    /\ loginForm' = EmptyForm
    /\ appIsLoading' = FALSE
    /\ loginPc' = "idle"
    /\ submitted' = Null
    /\ UNCHANGED <<isInitializing, requires2FA, tempLoginData, storage, clock, issued,
                   sessionPc, timerPc, twoFAPc, logoutPc, profilePc, refreshFor,
                   loggedOut, otherVars>>

\* submit2FALogin up to the await of the token request.
Submit2FALogin ==
    /\ route = "login"
    /\ requires2FA
    /\ ~appIsLoading
    /\ twoFAPc = "idle"
    /\ appIsLoading' = TRUE
    /\ twoFAPc' = "token"
    /\ submitted' = tempLoginData
    /\ UNCHANGED <<route, user, isInitializing, requires2FA, tempLoginData, loginForm,
                   storage, clock, timer, issued, sessionPc, timerPc, loginPc, logoutPc,
                   profilePc, refreshFor, loggedOut, otherVars>>

\* submit2FALogin: the token endpoint has answered.
TwoFAAnswered(outcome) ==
    /\ twoFAPc = "token"
    /\ outcome \in TokenOutcomes
    /\ outcome = "ok" => issued < MaxTokens
    /\ IF outcome = "ok"
       THEN /\ storage' = TokenStorageSave(TokenResponse(issued + 1))
            /\ issued' = issued + 1
            /\ loggedOut' = FALSE
            /\ twoFAPc' = "user"
            /\ UNCHANGED <<appIsLoading, submitted>>
       ELSE /\ appIsLoading' = FALSE
            /\ twoFAPc' = "idle"
            /\ submitted' = Null
            /\ UNCHANGED <<storage, issued, loggedOut>>
    /\ UNCHANGED <<route, user, isInitializing, requires2FA, tempLoginData, loginForm,
                   clock, timer, sessionPc, timerPc, loginPc, logoutPc, profilePc,
                   refreshFor, otherVars>>

\* submit2FALogin: fetchUserData has settled with userData (Null: no data).
TwoFAUser(userData) ==
    /\ twoFAPc = "user"
    /\ user' = IF userData # Null THEN userData ELSE [email |-> submitted.email]
    /\ route' = "dashboard"
    /\ timer' = AutoRefreshEffect("dashboard", storage)
    /\ loginForm' = EmptyForm
    /\ requires2FA' = FALSE
    /\ tempLoginData' = Null
    /\ appIsLoading' = FALSE
    /\ twoFAPc' = "idle"
    /\ submitted' = Null
    /\ UNCHANGED <<isInitializing, storage, clock, issued, sessionPc, timerPc, loginPc,
                   logoutPc, profilePc, refreshFor, loggedOut, otherVars>>

\* A click on "Voltar ao login"; the button is not disabled while loading.
Cancel2FA ==
    /\ route = "login"
    /\ requires2FA
    /\ requires2FA' = FALSE
    /\ tempLoginData' = Null
    /\ UNCHANGED <<route, user, isInitializing, appIsLoading, loginForm, storage, clock,
                   timer, issued, sessionPc, handlerPcs, submitted, refreshFor,
                   loggedOut, otherVars>>

\* openProfile up to the await of fetch2FAStatus; the button is disabled
\* while isLoadingProfile.
OpenProfile ==
    /\ route = "dashboard"
    /\ profilePc = "idle"
    /\ profilePc' = "status"
    /\ UNCHANGED <<route, user, isInitializing, storage, clock, timer, issued, sessionPc,
                   timerPc, loginPc, twoFAPc, logoutPc, refreshFor, loggedOut,
                   appState, otherVars>>

\* openProfile: fetch2FAStatus has settled (it never throws).
ProfileOpened ==
    /\ profilePc = "status"
    /\ profilePc' = "idle"
    /\ route' = "profile"
    /\ timer' = AutoRefreshEffect("profile", storage)
    /\ UNCHANGED <<user, isInitializing, storage, clock, issued, sessionPc,
                   timerPc, loginPc, twoFAPc, logoutPc, refreshFor, loggedOut,
                   appState, otherVars>>

\* ProfilePage onBack.
ProfileBack ==
    /\ route = "profile"
    /\ route' = "dashboard"
    /\ timer' = AutoRefreshEffect("dashboard", storage)
    /\ UNCHANGED <<user, isInitializing, storage, clock, issued, sessionPc,
                   handlerPcs, refreshFor, loggedOut, appState, otherVars>>

\* 60 s pass; an armed timeout fires when it is due.
Tick ==
    /\ clock < MaxClock
    /\ ~(timer # NoTimer /\ clock >= timer /\ timerPc = "idle")
    /\ clock' = clock + 1
    /\ UNCHANGED <<route, user, isInitializing, storage, timer, issued, sessionPc,
                   handlerPcs, refreshFor, loggedOut, appState, otherVars>>

----------------------------------------------------------------------------
(* Specifications *)

DashInit ==
    /\ devices = INITIAL_DEVICES
    /\ isLoading = FALSE
    /\ lastUpdate = 0
    /\ inflight = {}
    /\ started = 0
    /\ now = 0
    /\ effectRan = FALSE
    /\ lastRun = NoRun

\* The Dashboard component from its mount.
Init == DashInit /\ AppOnDashboard /\ EvalIdle /\ CallIdle

Next ==
    \/ MountEffect
    \/ IntervalTick
    \/ ManualRefresh
    \/ FetchSucceeds
    \/ FetchFails

Spec == Init /\ [][Next]_vars

\* Readings handed to calculateRiskFromSensors: every threshold of every
\* criterion, the nearest value on each side of it, and values outside the
\* physical range; for smokePercent also the values that are not finite
\* numbers.
TemperatureInputs == {2799, 2800, 3300, 3301, 3800, 3801}
AirHumidityInputs == {4501, 4500, 3000, 2999, 2000, 1999}
SoilHumidityInputs == {3001, 3000, 2000, 1999, 1000, 999, -2830, 10330}
SmokeInputs == {NaN, Infinity, -Infinity, 0, 300, 301, 600, 601, 1000, 1001}
HeatIndexInputs == {2999, 3000, 3600, 3601, 4000, 4001}

EvalInputs ==
    [temperature : TemperatureInputs, airHumidity : AirHumidityInputs,
     soilHumidity : SoilHumidityInputs, smokePercent : SmokeInputs,
     heatIndex : HeatIndexInputs]

\* One call of calculateRiskFromSensors on any of the readings.
InitEval ==
    /\ DashInit
    /\ AppOnDashboard
    /\ evalDevice \in EvalInputs
    /\ evalPc = "temperature"
    /\ riskPoints = 0
    /\ evalResult = Null
    /\ returned = <<>>
    /\ CallIdle

NextEval ==
    \/ EvalTemperature
    \/ EvalAirHumidity
    \/ EvalSoilHumidity
    \/ EvalSmoke
    \/ EvalHeatIndex
    \/ EvalReturn

SpecEval == InitEval /\ [][NextEval]_vars

\* The readings of the two end-to-end scenarios: the simulated devices
\* 003 and 004.
CallReadings == {INITIAL_DEVICES[3], INITIAL_DEVICES[4]}

\* Dashboard handlers run so far: every invocation started, and every one
\* resumed after its fetch.
HandlersRun == 2 * started - Cardinality(inflight)

\* The three functions are synchronous: Dashboard handlers run before a
\* call or after it has returned, never inside it.
BetweenCalls ==
    /\ evalPc = "done"
    /\ NoCallPending
    /\ HandlersRun < MaxHandlers
    /\ Next

EvalCallAgain ==
    /\ NoCallPending
    /\ \E device \in CallReadings : EvalCall(device)

\* The raw values of the documented conversions: 1.00 and 3.00.
CallRawValues == {100, 300}

ConverterCalled ==
    /\ evalPc = "done"
    /\ \E fn \in {"convertSmokeToPercent", "convertSoilHumidityToPercent"},
          value \in CallRawValues : CallConverter(fn, value)

\* Calls of calculateRiskFromSensors and of the converters, one after the
\* other, with Dashboard handlers running in between.
InitCalls ==
    /\ DashInit
    /\ AppOnDashboard
    /\ evalDevice \in CallReadings
    /\ evalPc = "temperature"
    /\ riskPoints = 0
    /\ evalResult = Null
    /\ returned = <<>>
    /\ CallIdle

NextCalls ==
    \/ NextEval
    \/ EvalCallAgain
    \/ ConverterCalled
    \/ CallConvertSmoke
    \/ CallConvertSoil
    \/ BetweenCalls

SpecCalls == InitCalls /\ [][NextCalls]_vars

\* Expiry entries an earlier page load can have left: already reached at
\* mount, exactly 60 s ahead, or later.
StoredExpiries == {MountTime, MountTime + Margin, MountTime + 3}

\* App from its mount: session check, login with or without 2FA, the
\* auto-refresh timeout, profile, logout.
InitAuth ==
    /\ DashInit
    /\ EvalIdle
    /\ CallIdle
    /\ AppInit
    /\ storage \in {NoTokens} \cup
           {[access_token |-> 1, refresh_token |-> 1, expiry |-> e] : e \in StoredExpiries}

NextAuth ==
    \/ CheckSessionStart
    \/ \E outcome \in TokenOutcomes : CheckSessionRefreshed(outcome)
    \/ \E userData \in {UserData, Null} : CheckSessionUser(userData)
    \/ TimerFires
    \/ \E outcome \in TokenOutcomes : TimerRefreshed(outcome)
    \/ Logout
    \/ \E outcome \in TokenOutcomes : LogoutRevoked(outcome)
    \/ HandleLoginChange
    \/ SubmitLogin
    \/ \E outcome \in TokenOutcomes \cup {"2fa"} : LoginAnswered(outcome)
    \/ \E userData \in {UserData, Null} : LoginUser(userData)
    \/ Submit2FALogin
    \/ \E outcome \in TokenOutcomes : TwoFAAnswered(outcome)
    \/ \E userData \in {UserData, Null} : TwoFAUser(userData)
    \/ Cancel2FA
    \/ OpenProfile
    \/ ProfileOpened
    \/ ProfileBack
    \/ Tick

SpecAuth == InitAuth /\ [][NextAuth]_vars

\* Every request of the session check settles.
FairSpecAuth ==
    /\ SpecAuth
    /\ WF_vars(CheckSessionStart)
    /\ WF_vars(\E outcome \in TokenOutcomes : CheckSessionRefreshed(outcome))
    /\ WF_vars(\E userData \in {UserData, Null} : CheckSessionUser(userData))

\* Raw sensor values handed to the converters: -5.00 up to MaxRaw, in
\* steps of one hundredth.
ConverterInputs == -500 .. MaxRaw

\* One call of a unit converter on any of the raw values.
InitConvert ==
    /\ DashInit
    /\ AppOnDashboard
    /\ EvalIdle
    /\ callFn \in {"convertSmokeToPercent", "convertSoilHumidityToPercent"}
    /\ callArg \in ConverterInputs
    /\ callRet = <<>>

NextConvert ==
    \/ CallConvertSmoke
    \/ CallConvertSoil

SpecConvert == InitConvert /\ [][NextConvert]_vars

\* What `last_value` of a feed can parse to: not a number (missing or
\* unparsable text), the numbers Infinity and -Infinity (the texts
\* "Infinity" and "-Infinity"), zero, and finite readings.
FeedTexts == {NaN, Infinity, -Infinity, 0, 257, 600}

FetchInputs ==
    [fumo : FeedTexts, umisolo : FeedTexts, temp22 : FeedTexts,
     umi22 : FeedTexts, sense22 : FeedTexts]

\* One call of fetchAdafruitData: the five requests answer with any of the
\* texts, or one of them fails (callArg = Null).
InitFetch ==
    /\ DashInit
    /\ AppOnDashboard
    /\ EvalIdle
    /\ callFn = "fetchAdafruitData"
    /\ callArg \in FetchInputs \cup {Null}
    /\ callRet = <<>>

NextFetch ==
    \/ CallFetchResolves
    \/ CallFetchRejects

SpecFetch == InitFetch /\ [][NextFetch]_vars

----------------------------------------------------------------------------
(* Properties *)

\* The stored assessment of a device is the evaluator's result on its stored reading.
AssessmentMatchesReading(device) ==
    /\ device.riskLevel = calculateRiskFromSensors(device).riskLevel
    /\ device.riskPercent = calculateRiskFromSensors(device).riskPercent

\* C1: in every reachable state of the Dashboard each device's stored
\* riskLevel and riskPercent are the pair calculateRiskFromSensors returns
\* for the device's stored reading.
C1_StoredAssessmentMatchesReading ==
    \A i \in DOMAIN devices : AssessmentMatchesReading(devices[i])

\* The points the statement just executed added to riskPoints.
Awarded == riskPoints' - riskPoints

\* C2: the temperature criterion awards 0 points below 28, 1 point on
\* [28, 33], 2 points on (33, 38] and 3 points above 38.
C2_TemperatureLadder ==
    [][evalPc = "temperature" /\ evalPc' = "airHumidity" =>
        LET t == evalDevice.temperature
        IN  /\ (t < 2800 => Awarded = 0)
            /\ (2800 <= t /\ t <= 3300 => Awarded = 1)
            /\ (3300 < t /\ t <= 3800 => Awarded = 2)
            /\ (t > 3800 => Awarded = 3)]_vars

\* C2 witness: the temperature statement has run on 33.01 and awarded 2 points.
C2_Witness ==
    evalPc = "airHumidity" /\ evalDevice.temperature = 3301 /\ riskPoints = 2

\* C3: the air-humidity criterion awards 0 points above 45, 1 point on
\* [30, 45], 2 points on [20, 30) and 3 points below 20.
C3_AirHumidityLadder ==
    [][evalPc = "airHumidity" /\ evalPc' = "soilHumidity" =>
        LET h == evalDevice.airHumidity
        IN  /\ (h > 4500 => Awarded = 0)
            /\ (3000 <= h /\ h <= 4500 => Awarded = 1)
            /\ (2000 <= h /\ h < 3000 => Awarded = 2)
            /\ (h < 2000 => Awarded = 3)]_vars

\* C3 witness: after 0 points for temperature, air humidity 45 has scored 1.
C3_Witness ==
    /\ evalPc = "soilHumidity"
    /\ evalDevice.temperature = 2799
    /\ evalDevice.airHumidity = 4500
    /\ riskPoints = 1

\* C4: the soil-humidity criterion awards 0 points above 30, 1 point on
\* [20, 30], 2 points on [10, 20) and 3 points below 10; values below 0 or
\* above 100 are scored by the same ladder.
C4_SoilHumidityLadder ==
    [][evalPc = "soilHumidity" /\ evalPc' = "smoke" =>
        LET s == evalDevice.soilHumidity
        IN  /\ (s > 3000 => Awarded = 0)
            /\ (2000 <= s /\ s <= 3000 => Awarded = 1)
            /\ (1000 <= s /\ s < 2000 => Awarded = 2)
            /\ (s < 1000 => Awarded = 3)]_vars

\* C4 witness: a negative soil humidity has been scored 3 points.
C4_Witness ==
    /\ evalPc = "smoke"
    /\ evalDevice.temperature = 2799
    /\ evalDevice.airHumidity = 4501
    /\ evalDevice.soilHumidity < 0
    /\ riskPoints = 3

\* C5: for a numeric smokePercent the smoke criterion awards 0 points up
\* to 3, 1 point on (3, 6], 2 points on (6, 10] and 3 points above 10.
C5_SmokeLadder ==
    [][evalPc = "smoke" /\ evalPc' = "heatIndex" /\ IsNum(evalDevice.smokePercent) =>
        LET p == evalDevice.smokePercent
        IN  /\ (p <= 300 => Awarded = 0)
            /\ (300 < p /\ p <= 600 => Awarded = 1)
            /\ (600 < p /\ p <= 1000 => Awarded = 2)
            /\ (p > 1000 => Awarded = 3)]_vars

\* C5 witness: smoke 6.01 has been scored 2 points on top of 0.
C5_Witness ==
    /\ evalPc = "heatIndex"
    /\ evalDevice.temperature = 2799
    /\ evalDevice.airHumidity = 4501
    /\ evalDevice.soilHumidity = 3001
    /\ evalDevice.smokePercent = 601
    /\ riskPoints = 2

\* C6: the heat-index criterion awards 0 points below 30, 1 point on
\* [30, 36], 2 points on (36, 40] and 3 points above 40.
C6_HeatIndexLadder ==
    [][evalPc = "heatIndex" /\ evalPc' = "result" =>
        LET x == evalDevice.heatIndex
        IN  /\ (x < 3000 => Awarded = 0)
            /\ (3000 <= x /\ x <= 3600 => Awarded = 1)
            /\ (3600 < x /\ x <= 4000 => Awarded = 2)
            /\ (x > 4000 => Awarded = 3)]_vars

\* C6 witness: heat index 30 has been scored 1 point on top of 0.
C6_Witness ==
    /\ evalPc = "result"
    /\ evalDevice.temperature = 2799
    /\ evalDevice.airHumidity = 4501
    /\ evalDevice.soilHumidity = 3001
    /\ evalDevice.smokePercent = 300
    /\ evalDevice.heatIndex = 3000
    /\ riskPoints = 1

AchievablePercents == {0, 7, 13, 20, 27, 33, 40, 47, 53, 60, 67, 73, 80, 87, 93, 100}

\* C7: riskPoints lies in 0..15, riskPercent is riskPoints / 15 * 100
\* rounded to the nearest integer (halves up), and riskPercent is one of
\* the 16 achievable values.
C7_PercentFromPoints ==
    evalPc = "done" =>
        /\ riskPoints \in 0..15
        /\ 30 * evalResult.riskPercent <= 200 * riskPoints + 15
        /\ 30 * evalResult.riskPercent > 200 * riskPoints - 15
        /\ evalResult.riskPercent \in AchievablePercents

\* C7 witness: a call has returned 7 percent for 1 point (6.67 rounded up).
C7_Witness ==
    evalPc = "done" /\ riskPoints = 1 /\ evalResult.riskPercent = 7

\* The level the specification assigns to a percentage.
LevelBands(level, percent) ==
    /\ (level = "low" <=> percent <= 25)
    /\ (level = "moderate" <=> (26 <= percent /\ percent <= 50))
    /\ (level = "high" <=> (51 <= percent /\ percent <= 75))
    /\ (level = "critical" <=> percent > 75)

\* C8: the returned riskLevel is a function of the returned riskPercent
\* alone (low up to 25, moderate 26..50, high 51..75, critical above 75),
\* and every integer 0..100 is given exactly one level.
C8_LevelFromPercent ==
    /\ evalPc = "done" => LevelBands(evalResult.riskLevel, evalResult.riskPercent)
    /\ \A percent \in 0..100 : LevelBands(RiskLevelOf(percent), percent)

\* C8 witness: a call has returned 53 percent with level high.
C8_Witness ==
    evalPc = "done" /\ evalResult.riskPercent = 53 /\ evalResult.riskLevel = "high"

\* The value of the field the statement at evalPc scores.
ScoredValue ==
    CASE evalPc = "temperature" -> evalDevice.temperature
      [] evalPc = "airHumidity" -> evalDevice.airHumidity
      [] evalPc = "soilHumidity" -> evalDevice.soilHumidity
      [] evalPc = "smoke" -> evalDevice.smokePercent
      [] evalPc = "heatIndex" -> evalDevice.heatIndex
      [] OTHER -> NaN

\* The statement at evalPc scores a reading equal to `threshold` with `points`.
AtThreshold(criterion, threshold, points) ==
    evalPc = criterion /\ evalPc' # evalPc /\ ScoredValue = threshold => Awarded = points

\* The thresholds at which the code scores the boundary value in the
\* lower-risk bucket.
LowerBucketThresholds ==
    /\ AtThreshold("temperature", 3300, 1) /\ AtThreshold("temperature", 3800, 2)
    /\ AtThreshold("airHumidity", 3000, 1) /\ AtThreshold("airHumidity", 2000, 2)
    /\ AtThreshold("soilHumidity", 2000, 1) /\ AtThreshold("soilHumidity", 1000, 2)
    /\ AtThreshold("smoke", 300, 0) /\ AtThreshold("smoke", 600, 1)
    /\ AtThreshold("smoke", 1000, 2)
    /\ AtThreshold("heatIndex", 3600, 1) /\ AtThreshold("heatIndex", 4000, 2)

\* C9 as stated: at every threshold of every criterion the boundary value
\* receives the smaller of the two adjacent point values.
C9_Original ==
    [][/\ LowerBucketThresholds
       /\ AtThreshold("temperature", 2800, 0)
       /\ AtThreshold("airHumidity", 4500, 0)
       /\ AtThreshold("soilHumidity", 3000, 0)
       /\ AtThreshold("heatIndex", 3000, 0)]_vars

\* C9 amended: the boundary value is scored in the lower-risk bucket at
\* every smoke threshold and at the two upper thresholds of the other four
\* criteria; at the first threshold of temperature (28), air humidity (45),
\* soil humidity (30) and heat index (30) it is scored in the higher-risk
\* bucket, with 1 point.
C9_BoundaryBuckets ==
    [][/\ LowerBucketThresholds
       /\ AtThreshold("temperature", 2800, 1)
       /\ AtThreshold("airHumidity", 4500, 1)
       /\ AtThreshold("soilHumidity", 3000, 1)
       /\ AtThreshold("heatIndex", 3000, 1)]_vars

\* C9 witness: a call on a reading that sits on a threshold of every
\* criterion (28, 30, 20, 6, 40) has returned, with 1 + 1 + 1 + 1 + 2 points.
C9_Witness ==
    /\ evalPc = "done"
    /\ evalDevice.temperature = 2800
    /\ evalDevice.airHumidity = 3000
    /\ evalDevice.soilHumidity = 2000
    /\ evalDevice.smokePercent = 600
    /\ evalDevice.heatIndex = 4000
    /\ riskPoints = 6

\* An invocation of updateDeviceData runs to its end in this step.
TickCompletes == inflight' # inflight /\ inflight' \subseteq inflight

\* The evaluator was run over the whole collection and every stored
\* assessment is the evaluator's result on the stored reading.
WholeCollectionEvaluated ==
    /\ lastRun'.evaluated = DeviceIds
    /\ \A i \in DOMAIN devices' : AssessmentMatchesReading(devices'[i])

FetchedReading(rawValues) ==
    [temperature |-> rawValues.temperature,
     airHumidity |-> rawValues.airHumidity,
     heatIndex |-> rawValues.heatIndex,
     soilHumidity |-> parseFloatFixed1(convertSoilHumidityToPercent(rawValues.soilHumidityRaw)),
     smokePercent |-> parseFloatFixed1(convertSmokeToPercent(rawValues.smoke))]

\* C11: after any successful refresh device 001 holds the values just
\* fetched in all five fields (fetched values of 0 included) and its
\* assessment is the evaluator's result on them, whatever it held before.
C11_Device001HoldsFetchedData ==
    devices[1].rawValues # NoRawValues =>
        LET fetched == FetchedReading(devices[1].rawValues)
        IN  /\ devices[1].temperature = fetched.temperature
            /\ devices[1].airHumidity = fetched.airHumidity
            /\ devices[1].soilHumidity = fetched.soilHumidity
            /\ devices[1].heatIndex = fetched.heatIndex
            /\ devices[1].smokePercent = fetched.smokePercent
            /\ devices[1].riskLevel = calculateRiskFromSensors(fetched).riskLevel
            /\ devices[1].riskPercent = calculateRiskFromSensors(fetched).riskPercent

\* C12: when smokePercent is undefined, missing or cannot be interpreted
\* as a finite number, the smoke criterion is scored as for 0 (0 points)
\* and the returned riskPercent is a number.
C12_NonFiniteSmokeScoresZero ==
    [][~IsFinite(evalDevice.smokePercent) =>
        /\ (evalPc = "smoke" /\ evalPc' = "heatIndex" => Awarded = 0)
        /\ (evalPc' = "done" => IsNum(evalResult'.riskPercent))]_vars

RiskLevels == {"low", "moderate", "high", "critical"}

\* The five fields of a reading are finite numbers.
FiniteReading(device) ==
    /\ IsFinite(device.temperature)
    /\ IsFinite(device.airHumidity)
    /\ IsFinite(device.soilHumidity)
    /\ IsFinite(device.heatIndex)
    /\ IsFinite(device.smokePercent)

\* C13: on a reading whose five fields are finite numbers the call never
\* stops before its return statement, and it returns one of the four
\* levels with an integer riskPercent in 0..100.
C13_TotalOnFiniteReadings ==
    FiniteReading(evalDevice) =>
        /\ (evalPc # "done" => ENABLED NextEval)
        /\ (evalPc = "done" =>
                /\ evalResult.riskLevel \in RiskLevels
                /\ evalResult.riskPercent \in 0..100)

\* C13 witness: a call on a finite reading with every criterion at its
\* worst has returned critical, 100 percent.
C13_Witness ==
    /\ evalPc = "done"
    /\ FiniteReading(evalDevice)
    /\ riskPoints = 15
    /\ evalResult = [riskLevel |-> "critical", riskPercent |-> 100]

Abs(x) == IF x < 0 THEN -x ELSE x

\* C14: convertSmokeToPercent(raw) is raw / 4.8 * 100 clamped to
\* [0, 100] and rounded to one decimal: 0.0 for raw <= 0, 100.0 for
\* raw >= 4.8 (0 -> 0.0, 4.8 -> 100.0, 10 -> 100.0, -5 -> 0.0), never
\* outside [0, 100].  The result r is in tenths; raw / 4.8 * 100 is
\* 100 * raw / 48 tenths for raw in hundredths.
C14_SmokePercentClampedRounded ==
    callFn = "convertSmokeToPercent" /\ callRet # <<>> =>
        LET r == callRet[1]
            exact48 == 100 * callArg
            clamped48 == IF exact48 < 0 THEN 0
                         ELSE IF exact48 > 1000 * 48 THEN 1000 * 48
                         ELSE exact48
        IN  /\ 2 * Abs(48 * r - clamped48) <= 48
            /\ r \in 0..1000
            /\ (callArg <= 0 => r = 0)
            /\ (callArg >= 480 => r = 1000)
            /\ (callArg = 0 => r = 0)
            /\ (callArg = 480 => r = 1000)
            /\ (callArg = 1000 => r = 1000)
            /\ (callArg = -500 => r = 0)

\* C14 witness: convertSmokeToPercent(10) has returned "100.0".
C14_Witness ==
    callFn = "convertSmokeToPercent" /\ callArg = 1000 /\ callRet = <<1000>>

\* C15: convertSoilHumidityToPercent(raw) is -65.79 * raw + 169.08
\* rounded to one decimal and never clamped (1 -> 103.3, 3 -> -28.3).
\* The result r is in tenths; the exact value is
\* (-6579 * raw + 1690800) / 1000 tenths for raw in hundredths.
C15_SoilPercentAffineUnclamped ==
    callFn = "convertSoilHumidityToPercent" /\ callRet # <<>> =>
        LET r == callRet[1]
            exact1000 == -6579 * callArg + 1690800
        IN  /\ 2 * Abs(1000 * r - exact1000) <= 1000
            /\ (callArg = 100 => r = 1033)
            /\ (callArg = 300 => r = -283)

\* C15 witness: convertSoilHumidityToPercent(3) has returned "-28.3".
C15_Witness ==
    callFn = "convertSoilHumidityToPercent" /\ callArg = 300 /\ callRet = <<-283>>

\* The sum of a field over the four devices of the collection.
FieldTotal(field) ==
    devices[1][field] + devices[2][field] + devices[3][field] + devices[4][field]

\* `shown`, in units of 1 / perUnit, is the mean of `field` over the four
\* devices (values in hundredths) rounded to the nearest 1 / perUnit.
IsRoundedMean(shown, field, perUnit) ==
    2 * Abs(4 * 100 * shown - perUnit * FieldTotal(field)) <= 4 * 100

\* C16: for every device collection the Dashboard holds, each displayed
\* average is the unweighted mean of the field over all devices,
\* temperature, heatIndex and smokePercent to one decimal, airHumidity and
\* soilHumidity to the nearest integer; being derived from `devices`, it
\* follows every change of the collection.
C16_AveragesAreRoundedMeans ==
    /\ Len(devices) = 4
    /\ IsRoundedMean(averages(devices).temperature, "temperature", 10)
    /\ IsRoundedMean(averages(devices).heatIndex, "heatIndex", 10)
    /\ IsRoundedMean(averages(devices).smokePercent, "smokePercent", 10)
    /\ IsRoundedMean(averages(devices).airHumidity, "airHumidity", 1)
    /\ IsRoundedMean(averages(devices).soilHumidity, "soilHumidity", 1)

\* C16 witness: after a successful refresh that gave device 001 the
\* temperature 35.5 the displayed temperature average is "31.4"
\* ((35.5 + 28 + 38 + 24) / 4 = 31.375).
C16_Witness ==
    /\ lastRun.ok
    /\ devices[1].temperature = 3550
    /\ averages(devices).temperature = 314

\* C17: every feed value that is not a number is replaced by 0 before
\* unit conversion, so the values fetchAdafruitData hands to the two
\* converters and the five fields it hands on to the evaluator are finite
\* numbers.
C17_FetchedFieldsFinite ==
    callFn = "fetchAdafruitData" /\ callRet # <<>> /\ callRet[1] # Null =>
        LET data == callRet[1]
        IN  /\ (~IsNum(callArg.fumo) => data.rawValues.smoke = 0)
            /\ (~IsNum(callArg.umisolo) => data.rawValues.soilHumidityRaw = 0)
            /\ (~IsNum(callArg.temp22) => data.airHumidity = 0)
            /\ (~IsNum(callArg.umi22) => data.temperature = 0)
            /\ (~IsNum(callArg.sense22) => data.heatIndex = 0)
            /\ IsFinite(data.rawValues.smoke)
            /\ IsFinite(data.rawValues.soilHumidityRaw)
            /\ IsFinite(data.temperature)
            /\ IsFinite(data.airHumidity)
            /\ IsFinite(data.heatIndex)
            /\ IsFinite(data.soilHumidity)
            /\ IsFinite(parseFloatFixed1(data.smokePercent))

\* C18: calculateRiskFromSensors, convertSmokeToPercent and
\* convertSoilHumidityToPercent are side-effect-free: while a call of one of
\* them runs, every step leaves the argument it was given and the shared
\* state (device list, loading flag, last update, pending refreshes, token
\* storage, route and the rest of the App state) as they were.
C18_CallsLeaveArgumentAndSharedState ==
    [][/\ (evalPc # "done" =>
              evalDevice' = evalDevice /\ UNCHANGED <<dashVars, authVars>>)
       /\ (~NoCallPending =>
              callArg' = callArg /\ UNCHANGED <<dashVars, authVars>>)]_vars

\* C18 witness: the evaluator and a converter have both been called and
\* have returned after a refresh replaced the device list.
C18_Witness ==
    /\ evalPc = "done"
    /\ Len(returned) = 2
    /\ callFn = "convertSoilHumidityToPercent"
    /\ callRet = <<-283>>
    /\ devices # INITIAL_DEVICES

\* C19: calculateRiskFromSensors is deterministic: whatever ran between
\* two calls (other calls, converter calls, Dashboard refreshes), calls on
\* the same reading returned the same riskLevel and riskPercent.
C19_SameReadingSameResult ==
    \A i, j \in DOMAIN returned :
        returned[i][1] = returned[j][1] => returned[i][2] = returned[j][2]

\* C19 witness: the same reading has been evaluated twice, the second time
\* after a refresh completed and a converter was called.
C19_Witness ==
    /\ Len(returned) = 2
    /\ returned[1][1] = returned[2][1]
    /\ lastRun.ok
    /\ callRet # <<>>

\* C20: for the reading temperature 38, air humidity 10, soil humidity 5,
\* heat index 42, smoke 12.9 the criteria award 2, 3, 3, 3 and 3 points
\* (temperature, air humidity, soil humidity, smoke, heat index), 14 in
\* all, and the call returns 93 percent, critical.
C20_WorstCaseScenario ==
    [][evalDevice.temperature = 3800 /\ evalDevice.airHumidity = 1000
         /\ evalDevice.soilHumidity = 500 /\ evalDevice.heatIndex = 4200
         /\ evalDevice.smokePercent = 1290 =>
        /\ (evalPc = "temperature" /\ evalPc' = "airHumidity" => Awarded = 2)
        /\ (evalPc = "airHumidity" /\ evalPc' = "soilHumidity" => Awarded = 3)
        /\ (evalPc = "soilHumidity" /\ evalPc' = "smoke" => Awarded = 3)
        /\ (evalPc = "smoke" /\ evalPc' = "heatIndex" => Awarded = 3)
        /\ (evalPc = "heatIndex" /\ evalPc' = "result" => Awarded = 3)
        /\ (evalPc = "result" /\ evalPc' = "done" =>
               /\ riskPoints = 14
               /\ evalResult' = [riskLevel |-> "critical", riskPercent |-> 93])]_vars

\* C20 witness: a call on that reading has returned critical, 93 percent,
\* with 14 points.
C20_Witness ==
    /\ evalPc = "done"
    /\ evalDevice.temperature = 3800
    /\ evalDevice.smokePercent = 1290
    /\ riskPoints = 14
    /\ evalResult = [riskLevel |-> "critical", riskPercent |-> 93]

\* C21: while the user is authenticated (route is not login), every stored
\* token is refreshed before it expires: once the clock has passed 60 s
\* before the stored expiry, a refresh attempt has been started for the
\* stored token, or the timeout that starts it is armed and due.
C21_RefreshBeforeEveryExpiry ==
    route # "login" /\ storage.access_token # 0 /\ clock > storage.expiry - Margin =>
        storage.access_token \in refreshFor \/ timer # NoTimer

\* A step in which logout runs to its end: after its revoke request has
\* settled, or at once when no access token is stored (clicked, or called
\* by the auto-refresh callback after a failed refresh).
LogoutEnds ==
    \/ \E outcome \in TokenOutcomes : LogoutRevoked(outcome)
    \/ Logout /\ storage.access_token = 0
    \/ TimerFires /\ storage.refresh_token = 0
    \/ \E outcome \in TokenOutcomes \ {"ok"} : TimerRefreshed(outcome)

\* C22: logout always ends with the three token entries removed, route
\* login, user null and the login form emptied, whether the revoke request
\* succeeded, failed, or was skipped because no access token was stored.
C22_LogoutAlwaysClears ==
    [][LogoutEnds =>
        /\ storage' = NoTokens
        /\ route' = "login"
        /\ user' = Null
        /\ loginForm' = EmptyForm]_vars

\* C22 witness: a clicked logout has ended after its revoke request
\* settled: a user had logged in, and is back on the login screen with
\* nothing stored.
C22_Witness ==
    /\ loggedOut
    /\ issued > 1
    /\ logoutPc = "idle"
    /\ timerPc = "idle"
    /\ route = "login"
    /\ user = Null
    /\ storage = NoTokens

\* C23: once logout has completed, token storage stays empty until the
\* next successful login.
C23_StorageEmptyAfterLogout ==
    loggedOut => storage = NoTokens

\* C24: after initialization, route is dashboard or profile only while a
\* user is set.
C24_AuthenticatedRouteHasUser ==
    ~isInitializing /\ route \in {"dashboard", "profile"} => user # Null

\* C25: when the token endpoint answers submitLogin with a 2FA signal, no
\* token is stored, route stays login, requires2FA becomes true and
\* tempLoginData keeps the submitted credentials; while the 2FA prompt is
\* up, tokens are in storage and the login screen is left only once
\* submit2FALogin has received an ok answer; cancel2FA and a rejected code
\* leave storage without tokens.
C25_TwoFactorGate ==
    [][/\ (loginPc = "token" /\ ~requires2FA /\ requires2FA' =>
              /\ storage' = NoTokens
              /\ route' = "login"
              /\ tempLoginData' = submitted)
       /\ (requires2FA' /\ twoFAPc' # "user" =>
              storage' = NoTokens /\ route' = "login")
       /\ (requires2FA /\ ~requires2FA' /\ twoFAPc' = twoFAPc => storage' = NoTokens)
       /\ (twoFAPc = "token" /\ twoFAPc' = "idle" => storage' = NoTokens)]_vars

\* The steps of checkSession decide as the claim says.
SessionCheckDecides ==
    /\ (sessionPc = "start" /\ sessionPc' = "user" =>
           storage.access_token # 0 /\ storage.expiry - clock >= Margin)
    /\ (sessionPc = "start" /\ sessionPc' = "refreshing" =>
           storage.access_token # 0 /\ storage.expiry - clock < Margin)
    /\ (sessionPc = "refreshing" /\ sessionPc' = "user" =>
           storage'.access_token \notin {0, storage.access_token})
    /\ (sessionPc # "done" /\ sessionPc' = "done" =>
           /\ isInitializing' = FALSE
           /\ route' \in {"login", "dashboard"}
           /\ route' = "dashboard" <=> sessionPc = "user" /\ user' # Null)

\* C26: the session check on mount always terminates with isInitializing
\* false; it ends on the dashboard exactly when an access token was
\* stored, the token was not within 60 s of expiry or was refreshed
\* successfully, and the user fetch returned data; otherwise route stays
\* login.
C26_SessionCheckTerminates ==
    /\ [][SessionCheckDecides]_vars
    /\ <>(sessionPc = "done" /\ ~isInitializing)

\* C26 witness: the check found a token within 60 s of expiry, refreshed
\* it, fetched the user and ended on the dashboard.
C26_Witness ==
    /\ sessionPc = "done"
    /\ ~isInitializing
    /\ 1 \in refreshFor
    /\ storage.access_token = 2
    /\ route = "dashboard"
    /\ user = UserData
    /\ clock = MountTime

\* C27: when a refresh fails (fetchAdafruitData returned null), the step
\* that completes it leaves the device collection and lastUpdate exactly
\* as they were and sets isLoading back to false.
C27_FailedRefreshChangesNothing ==
    [][TickCompletes /\ ~lastRun'.ok =>
        /\ devices' = devices
        /\ lastUpdate' = lastUpdate
        /\ isLoading' = FALSE]_vars

\* C27 witness: a refresh has failed after an earlier one had succeeded,
\* so there were fetched data and a lastUpdate to keep.
C27_Witness ==
    /\ lastRun.id > 0
    /\ ~lastRun.ok
    /\ lastUpdate > 0
    /\ devices # INITIAL_DEVICES
    /\ ~isLoading

\* C28: when refreshes overlap, the data applied to device 001 never come
\* from a refresh started earlier than the one whose data it holds: a
\* successful refresh that completes after another successful one was
\* started after it.
C28_LastStartedRefreshWins ==
    [][TickCompletes /\ lastRun.ok /\ lastRun'.ok => lastRun'.id > lastRun.id]_vars

\* C29: isLoading is true exactly when at least one refresh is in flight.
C29_LoadingIffInFlight ==
    isLoading <=> inflight # {}

====
